---- MODULE Spec2Model ----
(***************************************************************************)
(* Model of main.py: UltimateGoldAgent.run_complete_analysis, one          *)
(* invocation of the script.  Each external call (HTTP GET, clock read,    *)
(* environment lookup, SMTP command) is one step of the process; the       *)
(* arithmetic between two external calls belongs to the step it follows.   *)
(*                                                                         *)
(* Units.  The code computes with floats; the model uses fixed point:      *)
(*   usd_index, oil_price, vix, gold_silver_ratio   tenths                 *)
(*   bond_yield, usd_inr, bitcoin                   hundredths             *)
(*   eur_usd                                        1e-4                   *)
(*   bullish_score, sentiment_score                 tenths                 *)
(*   confidence (local)                             1/40                   *)
(*   total_change_pct                               5e-4 of a percent      *)
(*   forecast.change_pct                            hundredths of a percent*)
(*   range_pct                                      5e-5 of a percent      *)
(* Dates are day numbers, day 1 = 2025-01-01.                              *)
(* round() of a float (the predicted prices, the stored confidence and     *)
(* change_pct): where the exact value lies on a half, the float error      *)
(* decides which neighbour the code returns; the operators below return    *)
(* the even one.                                                           *)
(***************************************************************************)
EXTENDS Integers, Sequences, FiniteSets, TLC

VARIABLES
    pc,             \* position of run_complete_analysis
    clock,          \* the day datetime.now() returns
    ticks,          \* midnights passed since the process started
    hseed,          \* the process's string-hash key (PYTHONHASHSEED)
    sources_data,   \* local list of fetch_live_gold_prices
    current_prices, \* self.current_prices
    market_data,    \* self.market_data
    forecast,       \* self.forecast
    report,         \* the report string, as the values it was formatted from
    creds,          \* sender_email, sender_password, recipient_email
    message,        \* the MIME message composed by send_ultimate_analysis_email
    smtp_log,       \* SMTP commands issued, in order
    calls,          \* requests made per endpoint
    outcome,        \* how each request ended (history)
    steps,          \* steps of run_complete_analysis begun, in order
    prices_ret,     \* return value of fetch_live_gold_prices
    email_sent,     \* return value of send_ultimate_analysis_email
    result,         \* return value of run_complete_analysis
    twin,           \* two further processes run on the same inputs
    call            \* one method applied to given arguments

main_vars == <<pc, clock, ticks, hseed, sources_data, current_prices,
               market_data, forecast, report, creds, message, smtp_log, calls,
               outcome, steps, prices_ret, email_sent, result>>

vars == <<main_vars, twin, call>>

----------------------------------------------------------------------------
(* Bounds *)

\* hash keys a process may start with: 1..NSeeds
NSeeds == 2
\* midnights that may pass during one invocation
MaxTicks == 1
\* number of start dates taken from StartDayList
NStartDays == 2

None == "None"
\* re.search found nothing (a capture of [0-9,]+ is never empty)
NoMatch == <<>>
Unset == "unset"
EmptyDict == <<>>

----------------------------------------------------------------------------
(* Arithmetic helpers *)

Abs(n) == IF n < 0 THEN -n ELSE n
Max(a, b) == IF a >= b THEN a ELSE b
Min(a, b) == IF a <= b THEN a ELSE b

\* nearest integer to base + n/d, ties to the even neighbour
RoundFrom(base, n, d) ==
    LET q == base + (n \div d)
        r == n % d
    IN  IF 2 * r < d THEN q
        ELSE IF 2 * r > d THEN q + 1
        ELSE IF q % 2 = 0 THEN q ELSE q + 1

\* Python round(n/d)
Round(n, d) == RoundFrom(0, n, d)

\* round(p * (1 + num/den)) for den a multiple of 1000, without forming p * den
RoundScaled(p, num, den) ==
    LET a    == p \div 1000
        b    == p % 1000
        den2 == den \div 1000
        q1   == (a * num) \div den2
        r1   == (a * num) % den2
        rest == r1 * 1000 + b * num
    IN  RoundFrom(p + q1, rest, den)

\* int(p * num / den) for a non-negative product: truncation
Trunc(n, d) == n \div d

Digits == {"0", "1", "2", "3", "4", "5", "6", "7", "8", "9"}

DigitVal(c) ==
    CASE c = "0" -> 0 [] c = "1" -> 1 [] c = "2" -> 2 [] c = "3" -> 3
      [] c = "4" -> 4 [] c = "5" -> 5 [] c = "6" -> 6 [] c = "7" -> 7
      [] c = "8" -> 8 [] c = "9" -> 9

\* str.replace(ch, '')
RECURSIVE Remove(_, _)
Remove(s, ch) ==
    IF s = <<>> THEN <<>>
    ELSE IF Head(s) = ch THEN Remove(Tail(s), ch)
    ELSE <<Head(s)>> \o Remove(Tail(s), ch)

RECURSIVE DecimalValue(_)
DecimalValue(s) ==
    IF s = <<>> THEN 0
    ELSE 10 * DecimalValue(SubSeq(s, 1, Len(s) - 1)) + DigitVal(s[Len(s)])

ValueError == -1

\* int(s) for a string of the regex class [0-9,]+ after the commas are removed
ParseInt(s) ==
    IF s = <<>> \/ \E i \in 1..Len(s) : s[i] \notin Digits THEN ValueError
    ELSE DecimalValue(s)

\* float(s), in hundredths, for digits with an optional fraction of up to two
\* digits
ParseFloat(s) ==
    LET dots == {i \in 1..Len(s) : s[i] = "."}
        dot  == IF dots = {} THEN Len(s) + 1 ELSE CHOOSE i \in dots : TRUE
        ip   == SubSeq(s, 1, dot - 1)
        fp   == SubSeq(s, dot + 1, Len(s))
        ok   == /\ Cardinality(dots) <= 1
                /\ Len(ip) + Len(fp) > 0
                /\ Len(fp) <= 2
                /\ \A i \in 1..Len(ip) : ip[i] \in Digits
                /\ \A i \in 1..Len(fp) : fp[i] \in Digits
        frac == IF Len(fp) = 0 THEN 0
                ELSE IF Len(fp) = 1 THEN 10 * DecimalValue(fp)
                ELSE DecimalValue(fp)
    IN  IF ok THEN 100 * DecimalValue(ip) + frac ELSE ValueError

----------------------------------------------------------------------------
(* Calendar: datetime.now(), .year, .month, .day, tm_yday, + timedelta(k) *)

MonthLengths == <<31, 28, 31, 30, 31, 30, 31, 31, 30, 31, 30, 31>>

YearOf(n) == 2025 + ((n - 1) \div 365)
DayOfYear(n) == ((n - 1) % 365) + 1

RECURSIVE DaysBefore(_)
DaysBefore(m) == IF m = 1 THEN 0 ELSE DaysBefore(m - 1) + MonthLengths[m - 1]

MonthOf(n) ==
    CHOOSE m \in 1..12 :
        /\ DaysBefore(m) < DayOfYear(n)
        /\ DayOfYear(n) <= DaysBefore(m) + MonthLengths[m]
DayOf(n) == DayOfYear(n) - DaysBefore(MonthOf(n))

\* 2025-10-25, 2025-10-14, 2025-11-10, 2025-04-30, 2025-12-30, 2025-01-15
StartDayList == <<298, 287, 314, 120, 364, 15>>
StartDays == {StartDayList[i] : i \in 1..Min(NStartDays, Len(StartDayList))}

\* 1e6 * sin(k * pi / 365) for k = 0..365, entry k + 1
SinTab ==
<<
    0, 8607, 17213, 25818, 34422, 43022, 51620, 60213, 68802, 77386,
    85965, 94537, 103102, 111659, 120208, 128748, 137279, 145799, 154309, 162807,
    171293, 179767, 188227, 196673, 205104, 213521, 221922, 230306, 238673, 247022,
    255353, 263665, 271958, 280231, 288482, 296713, 304921, 313107, 321270, 329408,
    337523, 345612, 353676, 361714, 369725, 377708, 385663, 393590, 401488, 409356,
    417194, 425000, 432776, 440519, 448229, 455907, 463550, 471160, 478734, 486273,
    493776, 501242, 508671, 516062, 523416, 530730, 538005, 545240, 552435, 559589,
    566702, 573772, 580800, 587785, 594727, 601624, 608477, 615285, 622047, 628763,
    635432, 642055, 648630, 655156, 661635, 668064, 674444, 680773, 687053, 693281,
    699458, 705584, 711657, 717677, 723644, 729558, 735417, 741222, 746972, 752667,
    758306, 763889, 769415, 774884, 780296, 785650, 790946, 796183, 801361, 806480,
    811539, 816538, 821477, 826354, 831171, 835925, 840618, 845249, 849817, 854322,
    858764, 863142, 867456, 871706, 875892, 880012, 884068, 888057, 891981, 895839,
    899631, 903356, 907014, 910605, 914128, 917584, 920971, 924291, 927542, 930724,
    933837, 936881, 939856, 942761, 945596, 948362, 951057, 953681, 956235, 958718,
    961130, 963471, 965740, 967938, 970064, 972118, 974100, 976011, 977848, 979614,
    981306, 982927, 984474, 985948, 987349, 988678, 989932, 991114, 992222, 993257,
    994218, 995105, 995919, 996659, 997325, 997917, 998435, 998880, 999250, 999546,
    999769, 999917, 999991, 999991, 999917, 999769, 999546, 999250, 998880, 998435,
    997917, 997325, 996659, 995919, 995105, 994218, 993257, 992222, 991114, 989932,
    988678, 987349, 985948, 984474, 982927, 981306, 979614, 977848, 976011, 974100,
    972118, 970064, 967938, 965740, 963471, 961130, 958718, 956235, 953681, 951057,
    948362, 945596, 942761, 939856, 936881, 933837, 930724, 927542, 924291, 920971,
    917584, 914128, 910605, 907014, 903356, 899631, 895839, 891981, 888057, 884068,
    880012, 875892, 871706, 867456, 863142, 858764, 854322, 849817, 845249, 840618,
    835925, 831171, 826354, 821477, 816538, 811539, 806480, 801361, 796183, 790946,
    785650, 780296, 774884, 769415, 763889, 758306, 752667, 746972, 741222, 735417,
    729558, 723644, 717677, 711657, 705584, 699458, 693281, 687053, 680773, 674444,
    668064, 661635, 655156, 648630, 642055, 635432, 628763, 622047, 615285, 608477,
    601624, 594727, 587785, 580800, 573772, 566702, 559589, 552435, 545240, 538005,
    530730, 523416, 516062, 508671, 501242, 493776, 486273, 478734, 471160, 463550,
    455907, 448229, 440519, 432776, 425000, 417194, 409356, 401488, 393590, 385663,
    377708, 369725, 361714, 353676, 345612, 337523, 329408, 321270, 313107, 304921,
    296713, 288482, 280231, 271958, 263665, 255353, 247022, 238673, 230306, 221922,
    213521, 205104, 196673, 188227, 179767, 171293, 162807, 154309, 145799, 137279,
    128748, 120208, 111659, 103102, 94537, 85965, 77386, 68802, 60213, 51620,
    43022, 34422, 25818, 17213, 8607, 0
>>
\* sin(k * pi / 365) * 1e6 for any integer k
SinPi365(k) ==
    LET j == k % 730
    IN  IF j <= 365 THEN SinTab[j + 1] ELSE -SinTab[j - 365 + 1]

----------------------------------------------------------------------------
(* hash(str(date)): a keyed hash.  CPython keys str hashes with a secret    *)
(* drawn when the process starts unless PYTHONHASHSEED fixes it; only the   *)
(* residues modulo 20, 30, 40, 60, 100 and 200 are used, so the value is    *)
(* kept modulo 600.                                                         *)

HashModulus == 600

StrHash(key, day) == (key * 389 + day * 211 + key * day * 17) % HashModulus

----------------------------------------------------------------------------
(* fetch_live_gold_prices: parsing and selection *)

Reliability(src) ==
    LET r == src.reliability
    IN  IF r = "HIGH" THEN 3 ELSE IF r = "VERIFIED" THEN 3
        ELSE IF r = "MEDIUM" THEN 2 ELSE 1

\* variant: the last source collected is taken
BestSourceLast(data) == data[Len(data)]

\* max(sources_data, key = ...): the first element of greatest key
BestSource(data) ==
    LET top == CHOOSE i \in 1..Len(data) :
                   /\ \A j \in 1..Len(data) :
                          Reliability(data[j]) <= Reliability(data[i])
                   /\ \A j \in 1..(i - 1) :
                          Reliability(data[j]) < Reliability(data[i])
    IN  data[top]

\* re.search over the three patterns of source 1, in order
MatchMain(body) ==
    IF body.main # NoMatch THEN body.main
    ELSE IF body.display # NoMatch THEN body.display
    ELSE body.table

GoldPriceIndiaEntry(group) ==
    LET price_24k_10g == ParseInt(Remove(group, ","))
    IN  [source |-> "GoldPriceIndia.com",
         24k_10g |-> price_24k_10g,
         22k_10g |-> Round(price_24k_10g * 916, 1000),
         reliability |-> "HIGH"]

GoodReturnsEntry(group) ==
    LET price_24k_gram == ParseInt(Remove(group, ","))
        price_24k_10g  == price_24k_gram * 10
    IN  [source |-> "GoodReturns.in",
         24k_10g |-> price_24k_10g,
         22k_10g |-> Round(price_24k_10g * 916, 1000),
         reliability |-> "MEDIUM"]

FallbackEntry ==
    [source |-> "Current_Market_Verified_Oct14_2025",
     24k_10g |-> 126502,
     22k_10g |-> 115960,
     reliability |-> "VERIFIED",
     note |-> "All-time high, up 3.96% today"]

\* variant: the hardcoded entry is appended whatever was collected
WithFallbackAlways(data) == Append(data, FallbackEntry)

\* lines 136-145
WithFallback(data) == IF data = <<>> THEN <<FallbackEntry>> ELSE data

\* lines 155-165
SelectedPrices(data, today) ==
    LET best_source == BestSource(data)
    IN  [24k_per_10g |-> best_source.24k_10g,
         22k_per_10g |-> best_source.22k_10g,
         24k_per_gram |-> Round(best_source.24k_10g, 10),
         22k_per_gram |-> Round(best_source.22k_10g, 10),
         source |-> best_source.source,
         reliability |-> best_source.reliability,
         timestamp |-> today,
         note |-> IF "note" \in DOMAIN best_source THEN best_source.note
                  ELSE "Current market rates",
         all_sources |-> Len(data)]

----------------------------------------------------------------------------
(* fetch_comprehensive_market_data: the pattern-based indicators *)

BITCOIN_FALLBACK == 6750000
USD_INR_FALLBACK == 8345
ETHEREUM_FALLBACK == 2650

\* d[k] = v
Put(d, k, v) == (k :> v) @@ d

SyntheticIndicators(today, key) ==
    LET day_of_year == DayOfYear(today)
        s2   == SinPi365(2 * day_of_year)
        h(k) == StrHash(key, today + k)
    IN  [usd_index |->
             Round(104200000 + s2 + ((h(0) % 40) - 20) * 10000, 100000),
         oil_price |->
             Round(88500000 + 5 * SinPi365(2 * (day_of_year - 60))
                       + ((h(1) % 60) - 30) * 100000, 100000),
         bond_yield |->
             Round(475000000 + 25 * s2 + ((h(2) % 30) - 15) * 1000000, 1000000),
         vix |->
             Max(120, Round(20500000 + 4 * SinPi365(3 * day_of_year)
                                + ((h(3) % 20) - 10) * 500000, 100000)),
         sp500 |->
             5720 + (YearOf(today) - 2025) * 150 + ((h(4) % 200) - 100),
         eur_usd |->
             Round(105500000 + 3 * s2 + ((h(5) % 40) - 20) * 100000, 10000),
         gold_silver_ratio |->
             Round(85000000 + 5 * s2 + ((h(6) % 20) - 10) * 500000, 100000)]

IndicatorKeys ==
    {"usd_index", "oil_price", "bond_yield", "vix", "sp500", "eur_usd",
     "gold_silver_ratio"}

\* lines 221-256: seven assignments into self.market_data
WithIndicators(md, today, key) ==
    LET ind == SyntheticIndicators(today, key)
    IN  [k \in DOMAIN md \cup IndicatorKeys |->
             IF k \in IndicatorKeys THEN ind[k] ELSE md[k]]

----------------------------------------------------------------------------
(* analyze_festival_season_impact; intensity in hundredths, premium and    *)
(* multiplier in tenths                                                    *)

\* variant: the first half of October ends a day early
FestivalDataDayEarly(today) ==
    LET month == MonthOf(today)
        day   == DayOf(today)
    IN  IF month = 10 THEN
            IF day < 15 THEN
                [season |-> "PRE_DIWALI_PEAK", intensity |-> 90,
                 premium_expected |-> 75, demand_multiplier |-> 18]
            ELSE IF day <= 25 THEN
                [season |-> "DHANTERAS_WEEK", intensity |-> 100,
                 premium_expected |-> 100, demand_multiplier |-> 22]
            ELSE
                [season |-> "DIWALI_WEEK", intensity |-> 95,
                 premium_expected |-> 120, demand_multiplier |-> 20]
        ELSE IF month = 11 THEN
            IF day <= 10 THEN
                [season |-> "POST_DIWALI", intensity |-> 60,
                 premium_expected |-> 40, demand_multiplier |-> 13]
            ELSE
                [season |-> "WINTER_WEDDING", intensity |-> 40,
                 premium_expected |-> 20, demand_multiplier |-> 12]
        ELSE IF month \in {4, 5} THEN
            [season |-> "WEDDING_SEASON", intensity |-> 50,
             premium_expected |-> 30, demand_multiplier |-> 14]
        ELSE
            [season |-> "NORMAL", intensity |-> 0,
             premium_expected |-> 0, demand_multiplier |-> 10]

FestivalData(today) ==
    LET month == MonthOf(today)
        day   == DayOf(today)
    IN  IF month = 10 THEN
            IF day <= 15 THEN
                [season |-> "PRE_DIWALI_PEAK", intensity |-> 90,
                 premium_expected |-> 75, demand_multiplier |-> 18]
            ELSE IF day <= 25 THEN
                [season |-> "DHANTERAS_WEEK", intensity |-> 100,
                 premium_expected |-> 100, demand_multiplier |-> 22]
            ELSE
                [season |-> "DIWALI_WEEK", intensity |-> 95,
                 premium_expected |-> 120, demand_multiplier |-> 20]
        ELSE IF month = 11 THEN
            IF day <= 10 THEN
                [season |-> "POST_DIWALI", intensity |-> 60,
                 premium_expected |-> 40, demand_multiplier |-> 13]
            ELSE
                [season |-> "WINTER_WEDDING", intensity |-> 40,
                 premium_expected |-> 20, demand_multiplier |-> 12]
        ELSE IF month \in {4, 5} THEN
            [season |-> "WEDDING_SEASON", intensity |-> 50,
             premium_expected |-> 30, demand_multiplier |-> 14]
        ELSE
            [season |-> "NORMAL", intensity |-> 0,
             premium_expected |-> 0, demand_multiplier |-> 10]

----------------------------------------------------------------------------
(* generate_ai_prediction: the seven weighted factors.  Each operator      *)
(* gives what the factor adds to bullish_score and bearish_score (tenths)  *)
(* and its impact label.                                                   *)

ATH_LEVEL == 125000

Factor(bull, bear, impact, weight) ==
    [bull |-> bull, bear |-> bear, impact |-> impact, weight |-> weight]

UsdFactor(usd_index) ==
    LET usd_weight == 25
    IN  IF usd_index > 1050 THEN
            Factor(0, usd_weight * 10, "STRONGLY BEARISH", usd_weight)
        ELSE IF usd_index > 1030 THEN
            Factor(0, usd_weight * 7, "BEARISH", usd_weight)
        ELSE IF usd_index < 1010 THEN
            Factor(usd_weight * 10, 0, "BULLISH", usd_weight)
        ELSE Factor(usd_weight * 3, usd_weight * 7, "NEUTRAL", usd_weight)

FestivalFactor(festival_intensity) ==
    LET festival_weight == 20
    IN  IF festival_intensity > 80 THEN
            Factor(festival_weight * 10, 0, "STRONGLY BULLISH", festival_weight)
        ELSE IF festival_intensity > 50 THEN
            Factor(festival_weight * 8, 0, "BULLISH", festival_weight)
        ELSE IF festival_intensity > 30 THEN
            Factor(festival_weight * 5, 0, "MODERATELY BULLISH", festival_weight)
        ELSE Factor(festival_weight * 1, 0, "NEUTRAL", festival_weight)

RatesFactor(bond_yield) ==
    LET rates_weight == 15
    IN  IF bond_yield > 550 THEN
            Factor(0, rates_weight * 10, "STRONGLY BEARISH", rates_weight)
        ELSE IF bond_yield > 480 THEN
            Factor(0, rates_weight * 7, "BEARISH", rates_weight)
        ELSE IF bond_yield < 400 THEN
            Factor(rates_weight * 10, 0, "BULLISH", rates_weight)
        ELSE Factor(0, rates_weight * 5, "MODERATELY BEARISH", rates_weight)

RiskFactor(vix) ==
    LET risk_weight == 12
    IN  IF vix > 300 THEN
            Factor(risk_weight * 10, 0, "STRONGLY BULLISH", risk_weight)
        ELSE IF vix > 250 THEN
            Factor(risk_weight * 8, 0, "BULLISH", risk_weight)
        ELSE IF vix < 150 THEN
            Factor(0, risk_weight * 6, "BEARISH", risk_weight)
        ELSE Factor(risk_weight * 3, 0, "NEUTRAL", risk_weight)

OilFactor(oil_price) ==
    LET oil_weight == 10
    IN  IF oil_price > 1000 THEN
            Factor(oil_weight * 10, 0, "BULLISH", oil_weight)
        ELSE IF oil_price > 900 THEN
            Factor(oil_weight * 6, 0, "MODERATELY BULLISH", oil_weight)
        ELSE IF oil_price < 750 THEN
            Factor(0, oil_weight * 5, "SLIGHTLY BEARISH", oil_weight)
        ELSE Factor(0, 0, "NEUTRAL", oil_weight)

CryptoFactor(bitcoin) ==
    LET crypto_weight == 8
    IN  IF bitcoin > 7500000 THEN
            Factor(0, crypto_weight * 6, "MODERATELY BEARISH", crypto_weight)
        ELSE IF bitcoin < 5500000 THEN
            Factor(crypto_weight * 5, 0, "SLIGHTLY BULLISH", crypto_weight)
        ELSE Factor(0, 0, "NEUTRAL", crypto_weight)

\* variant: a weak rupee adds ten times its weight
InrFactorOverweight(usd_inr) ==
    LET inr_weight == 10
    IN  IF usd_inr > 8450 THEN
            Factor(inr_weight * 100, 0, "BULLISH", inr_weight)
        ELSE IF usd_inr > 8350 THEN
            Factor(inr_weight * 6, 0, "MODERATELY BULLISH", inr_weight)
        ELSE IF usd_inr < 8250 THEN
            Factor(0, inr_weight * 4, "SLIGHTLY BEARISH", inr_weight)
        ELSE Factor(0, 0, "NEUTRAL", inr_weight)

InrFactor(usd_inr) ==
    LET inr_weight == 10
    IN  IF usd_inr > 8450 THEN
            Factor(inr_weight * 10, 0, "BULLISH", inr_weight)
        ELSE IF usd_inr > 8350 THEN
            Factor(inr_weight * 6, 0, "MODERATELY BULLISH", inr_weight)
        ELSE IF usd_inr < 8250 THEN
            Factor(0, inr_weight * 4, "SLIGHTLY BEARISH", inr_weight)
        ELSE Factor(0, 0, "NEUTRAL", inr_weight)

FactorNames ==
    <<"usd_strength", "festival_season", "interest_rates", "geopolitical_risk",
      "oil_inflation", "crypto_correlation", "inr_weakness">>

\* lines 355-521
Factors(md, festival_data) ==
    [usd_strength       |-> UsdFactor(md["usd_index"]),
     festival_season    |-> FestivalFactor(festival_data.intensity),
     interest_rates     |-> RatesFactor(md["bond_yield"]),
     geopolitical_risk  |-> RiskFactor(md["vix"]),
     oil_inflation      |-> OilFactor(md["oil_price"]),
     crypto_correlation |-> CryptoFactor(md["bitcoin"]),
     inr_weakness       |-> InrFactor(md["usd_inr"])]

RECURSIVE SumOver(_, _, _)
SumOver(factors, field, n) ==
    IF n = 0 THEN 0
    ELSE SumOver(factors, field, n - 1) + factors[FactorNames[n]][field]

BullishScore(factors) == SumOver(factors, "bull", Len(FactorNames))
BearishScore(factors) == SumOver(factors, "bear", Len(FactorNames))
TotalWeight(factors) == SumOver(factors, "weight", Len(FactorNames))

\* line 524, tenths
SentimentScore(bullish_score, total_weight) ==
    IF total_weight > 0 THEN (bullish_score * 100) \div total_weight ELSE 500

\* line 524 in binary64: whether the float lies above the decimal value.
\* 55.0 / 100 * 100 evaluates to 55.00000000000001; every other sum the
\* seven factors can give that lies on a threshold of lines 563-575 comes
\* out exact
SentimentAbove(bullish_score, total_weight) ==
    total_weight = 100 /\ bullish_score = 550

\* the comparison sentiment_score > threshold of lines 563-575
Exceeds(sentiment_score, above, threshold) ==
    sentiment_score > threshold \/ (sentiment_score = threshold /\ above)

\* lines 528-536, in 5e-4 of a percent
BaseChange(sentiment_score) == (sentiment_score - 500) * 3
TechnicalMomentum(price) == IF price > ATH_LEVEL THEN 600 ELSE 0
VolatilityFactor(today, key) == ((StrHash(key, today) % 100) - 50) * 16

\* variant: the lower limit at all-time highs loses its sign
ClampChangeSignSlip(price, change) ==
    IF price > ATH_LEVEL THEN Max(4000, Min(3000, change))
    ELSE Max(-5000, Min(5000, change))

\* lines 540-543
ClampChange(price, change) ==
    IF price > ATH_LEVEL THEN Max(-4000, Min(3000, change))
    ELSE Max(-5000, Min(5000, change))

\* line 546
Predicted24k(price, change) == RoundScaled(price, change, 200000)

\* line 547
Predicted22k(predicted_24k) == Round(predicted_24k * 916, 1000)

\* variant: the cap at all-time highs is left out
ConfidenceUncapped(price, sentiment_score) ==
    LET factor_alignment == Abs(sentiment_score - 500)
    IN  Min(3800, Max(3000, 3200 + factor_alignment))

\* lines 550-555, in 1/40
Confidence(price, sentiment_score) ==
    LET factor_alignment == Abs(sentiment_score - 500)
        confidence       == Min(3800, Max(3000, 3200 + factor_alignment))
    IN  IF price > ATH_LEVEL THEN Min(confidence, 3520) ELSE confidence

\* line 558, in 5e-5 of a percent
RangePct(change) == 12000 + Abs(change) * 3

\* variant: the two ends of the range change places
Range24kSwapped(predicted_24k, range_pct) ==
    [lower |-> RoundScaled(predicted_24k, range_pct, 2000000),
     upper |-> RoundScaled(predicted_24k, -range_pct, 2000000)]

\* lines 559-560
Range24k(predicted_24k, range_pct) ==
    [lower |-> RoundScaled(predicted_24k, -range_pct, 2000000),
     upper |-> RoundScaled(predicted_24k, range_pct, 2000000)]

\* lines 563-580
TrendAction(sentiment_score, above, confidence) ==
    IF Exceeds(sentiment_score, above, 750) /\ confidence > 3400 THEN
        [trend |-> <<"STRONGLY BULLISH">>, action |-> "AGGRESSIVE BUY"]
    ELSE IF Exceeds(sentiment_score, above, 650) THEN
        [trend |-> <<"BULLISH">>, action |-> "BUY on dips"]
    ELSE IF Exceeds(sentiment_score, above, 550) THEN
        [trend |-> <<"MODERATELY BULLISH">>, action |-> "SELECTIVE buying"]
    ELSE IF Exceeds(sentiment_score, above, 450) THEN
        [trend |-> <<"NEUTRAL">>, action |-> "HOLD positions"]
    ELSE IF Exceeds(sentiment_score, above, 350) THEN
        [trend |-> <<"MODERATELY BEARISH">>, action |-> "REDUCE exposure"]
    ELSE [trend |-> <<"BEARISH">>, action |-> "AVOID new positions"]

\* variant: at all-time highs only 'AGGRESSIVE BUY' is replaced
AllTimeHighOverrideAggressiveOnly(price, ta) ==
    IF price > ATH_LEVEL THEN
        [trend  |-> ta.trend \o <<" (AT ALL-TIME HIGH)">>,
         action |-> IF ta.action \in {"AGGRESSIVE BUY"}
                    THEN "CAUTIOUS buying (all-time high risk)"
                    ELSE ta.action]
    ELSE ta

\* lines 583-586; the trend string is kept as its pieces
AllTimeHighOverride(price, ta) ==
    IF price > ATH_LEVEL THEN
        [trend  |-> ta.trend \o <<" (AT ALL-TIME HIGH)">>,
         action |-> IF ta.action \in {"AGGRESSIVE BUY", "BUY on dips"}
                    THEN "CAUTIOUS buying (all-time high risk)"
                    ELSE ta.action]
    ELSE ta

\* lines 536-596: what the function computes from the price, the sentiment
\* score (its decimal value and whether the float lies above it) and the
\* sum of the three change components
PredictionTail(price, sentiment_score, above, change) ==
    LET total_change_pct == ClampChange(price, change)
        predicted_24k    == Predicted24k(price, total_change_pct)
        confidence       == Confidence(price, sentiment_score)
        range_pct        == RangePct(total_change_pct)
        ta == AllTimeHighOverride(price, TrendAction(sentiment_score, above,
                                                     confidence))
    IN  [predicted_24k   |-> predicted_24k,
         predicted_22k   |-> Predicted22k(predicted_24k),
         change_pct      |-> Round(total_change_pct, 20),
         sentiment_score |-> sentiment_score,
         confidence      |-> Round(confidence, 4),
         trend           |-> ta.trend,
         action          |-> ta.action,
         range_24k       |-> Range24k(predicted_24k, range_pct),
         \* locals
         total_change_pct |-> total_change_pct,
         range_pct        |-> range_pct,
         raw_confidence   |-> confidence,
         sentiment_above  |-> above]

\* lines 346-600: the forecast for the given price, market data and the two
\* clock readings (line 353 and, inside the festival analysis, line 271);
\* the locals the claims speak about are kept beside the stored fields
Forecast(price, md, today, festival_today, key) ==
    LET festival_data    == FestivalData(festival_today)
        factors          == Factors(md, festival_data)
        bullish_score    == BullishScore(factors)
        bearish_score    == BearishScore(factors)
        total_weight     == TotalWeight(factors)
        sentiment_score  == SentimentScore(bullish_score, total_weight)
    IN  PredictionTail(price, sentiment_score,
                       SentimentAbove(bullish_score, total_weight),
                       BaseChange(sentiment_score) + TechnicalMomentum(price)
                           + VolatilityFactor(today, key))
        @@ [factors         |-> factors,
            festival_data   |-> festival_data,
            technical_note  |->
                "Gold at all-time high - increased volatility expected",
            \* locals
            bullish_score    |-> bullish_score,
            bearish_score    |-> bearish_score,
            total_weight     |-> total_weight]

----------------------------------------------------------------------------
(* create_ultimate_report: the report as the values it is formatted from *)

Mood(trend) ==
    LET has(w) == \E i \in 1..Len(trend) : trend[i] \in w
    IN  IF has({"STRONGLY BULLISH"}) THEN "VERY BULLISH"
        ELSE IF has({"BULLISH", "MODERATELY BULLISH"}) THEN "BULLISH"
        ELSE IF has({"NEUTRAL"}) THEN "NEUTRAL"
        ELSE "BEARISH"

ReportKeys ==
    {"usd_index", "usd_inr", "bond_yield", "vix", "oil_price", "sp500",
     "eur_usd", "bitcoin", "ethereum", "gold_silver_ratio"}

\* variant: the report shows the current price as the predicted one
ReportStale(prices, md, fc) ==
    [mood      |-> Mood(fc.trend),
     prices    |-> prices,
     market    |-> [k \in ReportKeys |-> md[k]],
     forecast  |-> [fc EXCEPT !.predicted_24k = prices.24k_per_10g],
     stop_loss |-> Trunc(prices.24k_per_10g * 975, 1000),
     risk      |-> IF prices.24k_per_10g > ATH_LEVEL
                   THEN "HIGH (all-time high)" ELSE "MEDIUM"]

Report(prices, md, fc) ==
    [mood      |-> Mood(fc.trend),
     prices    |-> prices,
     market    |-> [k \in ReportKeys |-> md[k]],
     forecast  |-> fc,
     stop_loss |-> Trunc(prices.24k_per_10g * 975, 1000),
     risk      |-> IF prices.24k_per_10g > ATH_LEVEL
                   THEN "HIGH (all-time high)" ELSE "MEDIUM"]

----------------------------------------------------------------------------
(* send_ultimate_analysis_email: credentials and message *)

\* all([...]): None and '' are falsy
Truthy(v) == v # None /\ v # ""

AllSet(env) ==
    /\ Truthy(env.sender_email)
    /\ Truthy(env.sender_password)
    /\ Truthy(env.recipient_email)

\* variant: the forecast is looked at before the price
SubjectPrefixChangeFirst(price, change_pct) ==
    IF change_pct > 100 THEN "STRONG BUY"
    ELSE IF price > ATH_LEVEL THEN "ALL-TIME HIGH"
    ELSE IF change_pct < -100 THEN "CAUTION"
    ELSE "ANALYSIS"

SubjectPrefix(price, change_pct) ==
    IF price > ATH_LEVEL THEN "ALL-TIME HIGH"
    ELSE IF change_pct > 100 THEN "STRONG BUY"
    ELSE IF change_pct < -100 THEN "CAUTION"
    ELSE "ANALYSIS"

HighPriority(price, change_pct) == Abs(change_pct) > 150 \/ price > ATH_LEVEL

Message(env, prices, fc, body, today) ==
    LET base == [From    |-> env.sender_email,
                 To      |-> env.recipient_email,
                 Subject |-> <<SubjectPrefix(prices.24k_per_10g, fc.change_pct),
                               prices.24k_per_10g, today>>,
                 body    |-> body]
    IN  IF HighPriority(prices.24k_per_10g, fc.change_pct)
        THEN base @@ [X_Priority |-> "1", X_MSMail_Priority |-> "High"]
        ELSE base

----------------------------------------------------------------------------
(* The environment: what the requests, the clock, os.environ and the SMTP   *)
(* server may answer                                                        *)

Exception == [raised |-> TRUE]
Http(status, body) == [raised |-> FALSE, status |-> status, body |-> body]

\* capture groups of the regex class [0-9,]+
G_126502 == <<"1", "2", "6", ",", "5", "0", "2">>
G_124000 == <<"1", ",", "2", "4", ",", "0", "0", "0">>
G_12541  == <<"1", "2", ",", "5", "4", "1">>
G_comma  == <<",">>

\* a page of source 1, as what each of its three patterns captures
Page(main, display, table) ==
    [main |-> main, display |-> display, table |-> table]

Page1Responses ==
    {Exception, Http(503, Page(G_126502, NoMatch, NoMatch))}
    \cup {Http(200, b) : b \in {Page(NoMatch, NoMatch, NoMatch),
                                Page(G_126502, NoMatch, NoMatch),
                                Page(G_126502, G_124000, NoMatch),
                                Page(NoMatch, G_124000, G_126502),
                                Page(NoMatch, NoMatch, G_124000),
                                Page(G_comma, G_126502, NoMatch)}}

\* a page of source 2, as what its pattern captures
Page2Responses ==
    {Exception, Http(404, G_12541)}
    \cup {Http(200, g) : g \in {NoMatch, G_12541, G_comma}}

Unparsable == [kind |-> "unparsable"]
NoKey == [kind |-> "no_key"]
Value(v) == [kind |-> "value", value |-> v]
NonNumber == [kind |-> "non_number"]

R_80000_50 == <<"8", "0", ",", "0", "0", "0", ".", "5", "0">>
R_50000    == <<"$", "5", "0", ",", "0", "0", "0">>
R_NA       == <<"N", "/", "A">>

BitcoinResponses ==
    {Exception, Http(500, Value(R_50000))}
    \cup {Http(200, b) : b \in {Unparsable, NoKey, Value(R_NA),
                                Value(R_80000_50), Value(R_50000)}}

UsdInrResponses ==
    {Exception, Http(429, Value(8500))}
    \cup {Http(200, b) : b \in {Unparsable, NoKey, NonNumber, Value(8500)}}

EthereumResponses ==
    {Exception, Http(502, Value(3000))}
    \cup {Http(200, b) : b \in {Unparsable, NoKey, NonNumber, Value(3000)}}

Env(a, b, c) ==
    [sender_email |-> a, sender_password |-> b, recipient_email |-> c]

Environments ==
    {Env("me@x", "pw", "you@x")}
    \cup {Env(v, "pw", "you@x") : v \in {None, ""}}
    \cup {Env("me@x", v, "you@x") : v \in {None, ""}}
    \cup {Env("me@x", "pw", v) : v \in {None, ""}}

Endpoints == {"page1", "page2", "bitcoin", "usd_inr", "ethereum", "smtp"}

----------------------------------------------------------------------------
(* Results of the three rate requests, lines 185-219 *)

\* the try block of lines 186-195
BitcoinResult(md, resp) ==
    LET fallback == Put(md, "bitcoin", BITCOIN_FALLBACK)
    IN  IF resp.raised THEN fallback
        ELSE IF resp.status # 200 THEN md
        ELSE IF resp.body.kind # "value" THEN fallback
        ELSE LET btc_price ==
                     ParseFloat(Remove(Remove(resp.body.value, ","), "$"))
             IN  IF btc_price = ValueError THEN fallback
                 ELSE Put(md, "bitcoin", btc_price)

\* the try blocks of lines 198-207 and 210-219: the value is stored before it
\* is formatted, and a value that cannot be formatted raises
JsonNumberResult(md, key, default, resp) ==
    LET fallback == Put(md, key, default)
    IN  IF resp.raised THEN fallback
        ELSE IF resp.status # 200 THEN md
        ELSE IF resp.body.kind = "value" THEN Put(md, key, resp.body.value)
        ELSE IF resp.body.kind = "non_number"
             THEN Put(Put(md, key, NonNumber), key, default)
        ELSE fallback

UsdInrResult(md, resp) == JsonNumberResult(md, "usd_inr", USD_INR_FALLBACK, resp)
EthereumResult(md, resp) ==
    JsonNumberResult(md, "ethereum", ETHEREUM_FALLBACK, resp)

\* how a request of lines 51-133 ended: the four ways the code tells apart
PageOutcome(resp, match) ==
    IF resp.raised THEN "exception"
    ELSE IF resp.status # 200 THEN "http_error"
    ELSE IF match = NoMatch THEN "no_match"
    ELSE IF ParseInt(Remove(match, ",")) = ValueError THEN "exception"
    ELSE "parsed"

Page1Outcome(resp) ==
    PageOutcome(resp, IF resp.raised THEN NoMatch ELSE MatchMain(resp.body))
Page2Outcome(resp) ==
    PageOutcome(resp, IF resp.raised THEN NoMatch ELSE resp.body)

\* how a request of lines 185-219 ended
BitcoinOutcome(resp) ==
    IF resp.raised THEN "exception"
    ELSE IF resp.status # 200 THEN "http_error"
    ELSE IF resp.body.kind # "value" THEN "unparsable"
    ELSE IF ParseFloat(Remove(Remove(resp.body.value, ","), "$")) = ValueError
         THEN "unparsable"
    ELSE "valid"

JsonNumberOutcome(resp) ==
    IF resp.raised THEN "exception"
    ELSE IF resp.status # 200 THEN "http_error"
    ELSE IF resp.body.kind # "value" THEN "unparsable"
    ELSE "valid"

\* lines 51-99: what source 1 adds to sources_data
Page1Result(data, resp) ==
    IF resp.raised \/ resp.status # 200 THEN data
    ELSE LET match_main == MatchMain(resp.body)
         IN  IF match_main = NoMatch THEN data
             ELSE IF ParseInt(Remove(match_main, ",")) = ValueError THEN data
             ELSE Append(data, GoldPriceIndiaEntry(match_main))

\* lines 102-133: what source 2 adds to sources_data
Page2Result(data, resp) ==
    IF resp.raised \/ resp.status # 200 THEN data
    ELSE LET match_gr == resp.body
         IN  IF match_gr = NoMatch THEN data
             ELSE IF ParseInt(Remove(match_gr, ",")) = ValueError THEN data
             ELSE Append(data, GoodReturnsEntry(match_gr))

----------------------------------------------------------------------------
(* The two further processes of the determinism check: each applies the    *)
(* indicator formulas and the prediction to the same date, price and API   *)
(* values under its own hash key                                           *)

TwinIdle == [stage |-> "idle"]

CallIdle == [fn |-> "idle"]

TwinPrices == {124000, 125410, 126502}

TwinMarket ==
    {Put(Put(Put(EmptyDict, "bitcoin", b), "usd_inr", u), "ethereum", e) :
         b \in {BITCOIN_FALLBACK, 5000000},
         u \in {USD_INR_FALLBACK, 8500},
         e \in {ETHEREUM_FALLBACK}}

TwinProc(key) == [key |-> key, market_data |-> EmptyDict, forecast |-> EmptyDict,
                  at |-> "indicators"]

TwinStart ==
    {[stage |-> "run", day |-> d, price |-> p, fetched |-> m,
      proc |-> <<TwinProc(k1), TwinProc(k2)>>] :
         d \in StartDays, p \in TwinPrices, m \in TwinMarket,
         k1 \in 1..NSeeds, k2 \in 1..NSeeds}

----------------------------------------------------------------------------
(* State after construction, lines 36-40; the clock, the hash key and the  *)
(* counters of the environment                                             *)

InitMain ==
    /\ pc = "page1"
    /\ clock \in StartDays
    /\ ticks = 0
    /\ hseed \in 1..NSeeds
    /\ sources_data = <<>>
    /\ current_prices = EmptyDict
    /\ market_data = EmptyDict
    /\ forecast = EmptyDict
    /\ report = Unset
    /\ creds = Unset
    /\ message = Unset
    /\ smtp_log = <<>>
    /\ calls = [e \in Endpoints |-> 0]
    /\ outcome = [e \in Endpoints \ {"smtp"} |-> "pending"]
    /\ steps = <<>>
    /\ prices_ret = Unset
    /\ email_sent = Unset
    /\ result = Unset

Init == InitMain /\ twin = TwinIdle /\ call = CallIdle

Called(e) == [calls EXCEPT ![e] = @ + 1]

----------------------------------------------------------------------------
(* Actions of one invocation *)

\* midnight passes while the script runs
ClockTick ==
    /\ pc \notin {"returned", "crashed"}
    /\ ticks < MaxTicks
    /\ clock' = clock + 1
    /\ ticks' = ticks + 1
    /\ UNCHANGED <<pc, hseed, sources_data, current_prices, market_data,
                   forecast, report, creds, message, smtp_log, calls, steps,
                   prices_ret, email_sent, result, outcome, twin, call>>

\* variant: a request that yields no price is made again
FetchGoldPriceIndiaRetry ==
    /\ pc = "page1"
    /\ \E resp \in Page1Responses :
           /\ sources_data' = Page1Result(<<>>, resp)
           /\ outcome' = [outcome EXCEPT !["page1"] = Page1Outcome(resp)]
           /\ pc' = IF Page1Outcome(resp) = "parsed" THEN "page2" ELSE "page1"
    /\ calls' = Called("page1")
    /\ steps' = IF steps = <<>> THEN <<"fetch_live_gold_prices">> ELSE steps
    /\ UNCHANGED <<clock, ticks, hseed, current_prices, market_data, forecast,
                   report, creds, message, smtp_log, prices_ret, email_sent,
                   result, twin, call>>

\* lines 48-99: request to GoldPriceIndia.com
FetchGoldPriceIndia ==
    /\ pc = "page1"
    /\ \E resp \in Page1Responses :
           /\ sources_data' = Page1Result(<<>>, resp)
           /\ outcome' = [outcome EXCEPT !["page1"] = Page1Outcome(resp)]
    /\ calls' = Called("page1")
    /\ steps' = Append(steps, "fetch_live_gold_prices")
    /\ pc' = "page2"
    /\ UNCHANGED <<clock, ticks, hseed, current_prices, market_data, forecast,
                   report, creds, message, smtp_log, prices_ret, email_sent,
                   result, twin, call>>

\* lines 101-133: request to GoodReturns.in
FetchGoodReturns ==
    /\ pc = "page2"
    /\ \E resp \in Page2Responses :
           /\ sources_data' = Page2Result(sources_data, resp)
           /\ outcome' = [outcome EXCEPT !["page2"] = Page2Outcome(resp)]
    /\ calls' = Called("page2")
    /\ pc' = "select"
    /\ UNCHANGED <<clock, ticks, hseed, current_prices, market_data, forecast,
                   report, creds, message, smtp_log, steps, prices_ret,
                   email_sent, result, twin, call>>

\* lines 135-175, and the test of the return value at lines 794-796
SelectBestSource ==
    /\ pc = "select"
    /\ LET data == WithFallback(sources_data)
       IN  /\ sources_data' = data
           /\ IF data # <<>>
              THEN /\ current_prices' = SelectedPrices(data, clock)
                   /\ prices_ret' = TRUE
                   /\ pc' = "bitcoin"
                   /\ result' = result
              ELSE /\ current_prices' = current_prices
                   /\ prices_ret' = FALSE
                   /\ pc' = "returned"
                   /\ result' = FALSE
    /\ UNCHANGED <<clock, ticks, hseed, market_data, forecast, report, creds,
                   message, smtp_log, calls, steps, email_sent, outcome, twin, call>>

\* lines 183-195: self.market_data = {} and the Bitcoin request
FetchBitcoin ==
    /\ pc = "bitcoin"
    /\ \E resp \in BitcoinResponses :
           /\ market_data' = BitcoinResult(EmptyDict, resp)
           /\ outcome' = [outcome EXCEPT !["bitcoin"] = BitcoinOutcome(resp)]
    /\ calls' = Called("bitcoin")
    /\ steps' = Append(steps, "fetch_comprehensive_market_data")
    /\ pc' = "usd_inr"
    /\ UNCHANGED <<clock, ticks, hseed, sources_data, current_prices, forecast,
                   report, creds, message, smtp_log, prices_ret, email_sent,
                   result, twin, call>>

\* lines 197-207: the USD-INR request
FetchUsdInr ==
    /\ pc = "usd_inr"
    /\ \E resp \in UsdInrResponses :
           /\ market_data' = UsdInrResult(market_data, resp)
           /\ outcome' = [outcome EXCEPT !["usd_inr"] = JsonNumberOutcome(resp)]
    /\ calls' = Called("usd_inr")
    /\ pc' = "ethereum"
    /\ UNCHANGED <<clock, ticks, hseed, sources_data, current_prices, forecast,
                   report, creds, message, smtp_log, steps, prices_ret,
                   email_sent, result, twin, call>>

\* lines 209-219: the Ethereum request
FetchEthereum ==
    /\ pc = "ethereum"
    /\ \E resp \in EthereumResponses :
           /\ market_data' = EthereumResult(market_data, resp)
           /\ outcome' = [outcome EXCEPT !["ethereum"] = JsonNumberOutcome(resp)]
    /\ calls' = Called("ethereum")
    /\ pc' = "indicators"
    /\ UNCHANGED <<clock, ticks, hseed, sources_data, current_prices, forecast,
                   report, creds, message, smtp_log, steps, prices_ret,
                   email_sent, result, twin, call>>

\* lines 221-266: the indicators computed from the date; returns True
ComputeIndicators ==
    /\ pc = "indicators"
    /\ market_data' = WithIndicators(market_data, clock, hseed)
    /\ pc' = "predict"
    /\ UNCHANGED <<clock, ticks, hseed, sources_data, current_prices, forecast,
                   report, creds, message, smtp_log, calls, steps, prices_ret,
                   email_sent, result, outcome, twin, call>>

\* lines 346-609; a key absent from self.market_data raises KeyError, which
\* nothing catches; midnight may pass between the two clock readings
GenerateAiPrediction ==
    /\ pc = "predict"
    /\ steps' = Append(steps, "generate_ai_prediction")
    /\ \E dt \in 0..(MaxTicks - ticks) :
           /\ clock' = clock + dt
           /\ ticks' = ticks + dt
           /\ IF {"bitcoin", "usd_inr"} \subseteq DOMAIN market_data
              THEN /\ forecast' = Forecast(current_prices.24k_per_10g,
                                           market_data, clock, clock + dt, hseed)
                   /\ pc' = "report"
              ELSE /\ forecast' = forecast
                   /\ pc' = "crashed"
    /\ UNCHANGED <<hseed, sources_data, current_prices, market_data, report,
                   creds, message, smtp_log, calls, prices_ret, email_sent,
                   result, outcome, twin, call>>

\* lines 611-731 (called at line 811); KeyError as above
CreateUltimateReport ==
    /\ pc = "report"
    /\ steps' = Append(steps, "create_ultimate_report")
    /\ IF ReportKeys \subseteq DOMAIN market_data
       THEN /\ report' = Report(current_prices, market_data, forecast)
            /\ pc' = "email"
       ELSE /\ report' = report
            /\ pc' = "crashed"
    /\ UNCHANGED <<clock, ticks, hseed, sources_data, current_prices,
                   market_data, forecast, creds, message, smtp_log, calls,
                   prices_ret, email_sent, result, outcome, twin, call>>

\* lines 733-767: the credentials are read and, when all are set, the
\* message is composed
ComposeEmail ==
    /\ pc = "email"
    /\ steps' = Append(steps, "send_ultimate_analysis_email")
    /\ \E env \in Environments :
           /\ creds' = env
           /\ IF AllSet(env)
              THEN /\ message' = Message(env, current_prices, forecast, report,
                                         clock)
                   /\ email_sent' = email_sent
                   /\ pc' = "smtp_connect"
              ELSE /\ message' = message
                   /\ email_sent' = FALSE
                   /\ pc' = "final"
    /\ UNCHANGED <<clock, ticks, hseed, sources_data, current_prices,
                   market_data, forecast, report, smtp_log, calls, prices_ret,
                   result, outcome, twin, call>>

\* one command of the SMTP session of lines 769-772.  A command that raises
\* ends the session: leaving the with block sends QUIT when the connection
\* had been opened, and the handler of line 778 returns False.
SmtpCommand(at, cmd, next) ==
    /\ pc = at
    /\ \E ok \in BOOLEAN, quit_ok \in BOOLEAN :
           IF ok
           THEN /\ smtp_log' = Append(smtp_log, [cmd |-> cmd, ok |-> TRUE])
                /\ email_sent' = email_sent
                /\ pc' = next
           ELSE /\ smtp_log' =
                       Append(smtp_log, [cmd |-> cmd, ok |-> FALSE])
                       \o (IF cmd = "connect" THEN <<>>
                           ELSE <<[cmd |-> "quit", ok |-> quit_ok]>>)
                /\ email_sent' = FALSE
                /\ pc' = "final"
    /\ calls' = IF cmd = "connect" THEN Called("smtp") ELSE calls
    /\ UNCHANGED <<clock, ticks, hseed, sources_data, current_prices,
                   market_data, forecast, report, creds, message, steps,
                   prices_ret, result, outcome, twin, call>>

\* variant: the session goes on to login without STARTTLS
SmtpStartTlsSkipped ==
    /\ pc = "starttls"
    /\ pc' = "login"
    /\ UNCHANGED <<clock, ticks, hseed, sources_data, current_prices,
                   market_data, forecast, report, creds, message, smtp_log,
                   calls, outcome, steps, prices_ret, email_sent, result, twin, call>>

\* line 769: smtplib.SMTP("smtp.gmail.com", 587)
SmtpConnect == SmtpCommand("smtp_connect", "connect", "starttls")
\* line 770
SmtpStartTls == SmtpCommand("starttls", "starttls", "login")
\* line 771
SmtpLogin == SmtpCommand("login", "login", "sendmail")
\* line 772
SmtpSendmail == SmtpCommand("sendmail", "sendmail", "quit")

\* leaving the with block after sendmail: QUIT; a reply other than 221
\* raises, and the handler of line 778 returns False; otherwise line 776
SmtpQuit ==
    /\ pc = "quit"
    /\ \E ok \in BOOLEAN :
           /\ smtp_log' = Append(smtp_log, [cmd |-> "quit", ok |-> ok])
           /\ email_sent' = ok
    /\ pc' = "final"
    /\ UNCHANGED <<clock, ticks, hseed, sources_data, current_prices,
                   market_data, forecast, report, creds, message, calls, steps,
                   prices_ret, result, outcome, twin, call>>

\* variant: the run returns the status of the email
FinishReturnsEmailStatus ==
    /\ pc = "final"
    /\ result' = email_sent
    /\ pc' = "returned"
    /\ UNCHANGED <<clock, ticks, hseed, sources_data, current_prices,
                   market_data, forecast, report, creds, message, smtp_log,
                   calls, outcome, steps, prices_ret, email_sent, twin, call>>

\* lines 818-839, and main() at lines 841-844
Finish ==
    /\ pc = "final"
    /\ result' = TRUE
    /\ pc' = "returned"
    /\ UNCHANGED <<clock, ticks, hseed, sources_data, current_prices,
                   market_data, forecast, report, creds, message, smtp_log,
                   calls, steps, prices_ret, email_sent, outcome, twin, call>>

Next ==
    \/ ClockTick
    \/ FetchGoldPriceIndia
    \/ FetchGoodReturns
    \/ SelectBestSource
    \/ FetchBitcoin
    \/ FetchUsdInr
    \/ FetchEthereum
    \/ ComputeIndicators
    \/ GenerateAiPrediction
    \/ CreateUltimateReport
    \/ ComposeEmail
    \/ SmtpConnect
    \/ SmtpStartTls
    \/ SmtpLogin
    \/ SmtpSendmail
    \/ SmtpQuit
    \/ Finish

Spec == Init /\ [][Next]_vars

----------------------------------------------------------------------------
(* Two processes on the same inputs *)

TwinIndicators(i) ==
    /\ twin.stage = "run"
    /\ twin.proc[i].at = "indicators"
    /\ twin' = [twin EXCEPT
                   !.proc[i].market_data =
                       WithIndicators(twin.fetched, twin.day, twin.proc[i].key),
                   !.proc[i].at = "predict"]
    /\ UNCHANGED <<main_vars, call>>

TwinPredict(i) ==
    /\ twin.stage = "run"
    /\ twin.proc[i].at = "predict"
    /\ twin' = [twin EXCEPT
                   !.proc[i].forecast =
                       Forecast(twin.price, twin.proc[i].market_data, twin.day,
                                twin.day, twin.proc[i].key),
                   !.proc[i].at = "done"]
    /\ UNCHANGED <<main_vars, call>>

InitTwin == InitMain /\ twin \in TwinStart /\ call = CallIdle

NextTwin == \E i \in 1..2 : TwinIndicators(i) \/ TwinPredict(i)

SpecTwin == InitTwin /\ [][NextTwin]_vars

----------------------------------------------------------------------------
(* One method applied to given arguments: the attributes and the date the  *)
(* method reads are drawn from the sets below                              *)

\* one value in every branch of lines 364-518, the thresholds among them
UsdIndexValues == {1051, 1050, 1030, 1009}
BondYieldValues == {551, 550, 480, 399}
VixValues == {301, 300, 250, 149}
OilPriceValues == {1001, 1000, 900, 749}
BitcoinValues == {7500001, 7500000, 5499999}
UsdInrValues == {8451, 8450, 8350, 8249}

\* self.market_data, the keys generate_ai_prediction reads
Market(usd_index, bond_yield, vix, oil_price, bitcoin, usd_inr) ==
    [usd_index |-> usd_index, bond_yield |-> bond_yield, vix |-> vix,
     oil_price |-> oil_price, bitcoin |-> bitcoin, usd_inr |-> usd_inr]

MarketValues ==
    {Market(u, y, v, o, b, r) :
         u \in UsdIndexValues, y \in BondYieldValues, v \in VixValues,
         o \in OilPriceValues, b \in BitcoinValues, r \in UsdInrValues}

MarketExtremes ==
    {Market(1009, 399, 301, 1001, 5499999, 8451),
     Market(1051, 551, 149, 749, 7500001, 8249)}

\* every date of a year
CalendarDays == 1..365
\* one date of every branch of lines 390-405
FactorDays == {298, 314, 120, 15}

\* self.current_prices['24k_per_10g']
CallPrices == {1, 99, 124000, 125000, 125001, 126502}
ThresholdPrices == {125000, 125001}

\* sentiment_score at line 524, and the sum of line 536
SentimentValues ==
    {0, 20, 350, 351, 450, 451, 500, 550, 551, 650, 651, 750, 751, 960, 1000}
ChangeValues == {50 * i : i \in -120..120}

\* self.forecast['change_pct']
ChangePctValues == -250..250

FestivalCalls ==
    {[fn |-> "analyze_festival_season_impact", at |-> "called", today |-> d] :
         d \in CalendarDays}

PredictionCalls ==
    {[fn |-> "generate_ai_prediction", at |-> "called", price |-> p,
      market_data |-> md, today |-> d, key |-> k] :
         p \in ThresholdPrices, md \in MarketValues, d \in FactorDays,
         k \in 1..NSeeds}

CalendarPredictionCalls ==
    {[fn |-> "generate_ai_prediction", at |-> "called", price |-> p,
      market_data |-> md, today |-> d, key |-> k] :
         p \in CallPrices, md \in MarketExtremes, d \in CalendarDays,
         k \in 1..NSeeds}

TailCalls ==
    {[fn |-> "generate_ai_prediction from line 536", at |-> "called",
      price |-> p, sentiment_score |-> s, above |-> a, change |-> c] :
         p \in CallPrices, s \in SentimentValues, a \in BOOLEAN,
         c \in ChangeValues}

EmailCalls ==
    {[fn |-> "send_ultimate_analysis_email", at |-> "called", env |-> e,
      price |-> p, change_pct |-> c, today |-> StartDayList[1]] :
         e \in Environments, p \in CallPrices \ {1, 99},
         c \in ChangePctValues}

Returned(fn) == call.fn = fn /\ call.at = "returned"

\* lines 268-344
CallAnalyzeFestival ==
    /\ call.fn = "analyze_festival_season_impact"
    /\ call.at = "called"
    /\ call' = [ret |-> FestivalData(call.today)]
                   @@ [call EXCEPT !.at = "returned"]
    /\ UNCHANGED <<main_vars, twin>>

\* lines 346-609, both clock readings on the same day
CallGenerateAiPrediction ==
    /\ call.fn = "generate_ai_prediction"
    /\ call.at = "called"
    /\ call' = [ret |-> Forecast(call.price, call.market_data, call.today,
                                 call.today, call.key)]
                   @@ [call EXCEPT !.at = "returned"]
    /\ UNCHANGED <<main_vars, twin>>

\* lines 536-600
CallPredictionTail ==
    /\ call.fn = "generate_ai_prediction from line 536"
    /\ call.at = "called"
    /\ call' = [ret |-> PredictionTail(call.price, call.sentiment_score,
                                       call.above, call.change)]
                   @@ [call EXCEPT !.at = "returned"]
    /\ UNCHANGED <<main_vars, twin>>

\* lines 733-767: the message as it stands before the SMTP session, when
\* one is composed
CallComposeEmail ==
    /\ call.fn = "send_ultimate_analysis_email"
    /\ call.at = "called"
    /\ call' = [composed |-> AllSet(call.env),
                message  |->
                    IF AllSet(call.env)
                    THEN Message(call.env, [24k_per_10g |-> call.price],
                                 [change_pct |-> call.change_pct], Unset,
                                 call.today)
                    ELSE EmptyDict]
                   @@ [call EXCEPT !.at = "returned"]
    /\ UNCHANGED <<main_vars, twin>>

InitCall ==
    /\ InitMain
    /\ clock = StartDayList[1]
    /\ hseed = 1
    /\ twin = TwinIdle
    /\ \/ call \in FestivalCalls
       \/ call \in PredictionCalls
       \/ call \in CalendarPredictionCalls
       \/ call \in TailCalls
       \/ call \in EmailCalls

NextCall ==
    \/ CallAnalyzeFestival
    \/ CallGenerateAiPrediction
    \/ CallPredictionTail
    \/ CallComposeEmail

SpecCall == InitCall /\ [][NextCall]_vars

----------------------------------------------------------------------------
(* Positions of the run the properties speak about *)

Has(step) == \E i \in 1..Len(steps) : steps[i] = step

\* fetch_live_gold_prices has returned
PricesReturned == pc \notin {"page1", "page2", "select"}
\* fetch_comprehensive_market_data has returned
MarketDataReturned == pc = "predict" \/ Has("generate_ai_prediction")
\* generate_ai_prediction has returned
ForecastMade == pc = "report" \/ Has("create_ultimate_report")
\* create_ultimate_report has returned
ReportMade == pc = "email" \/ Has("send_ultimate_analysis_email")
\* send_ultimate_analysis_email has returned
EmailReturned ==
    pc \in {"final", "returned"} /\ Has("send_ultimate_analysis_email")

RateKeys == {"bitcoin", "usd_inr", "ethereum"}
RateFallback ==
    [bitcoin |-> BITCOIN_FALLBACK, usd_inr |-> USD_INR_FALLBACK,
     ethereum |-> ETHEREUM_FALLBACK]

Failed(i) == ~smtp_log[i].ok
Done(i, cmd) == smtp_log[i] = [cmd |-> cmd, ok |-> TRUE]

----------------------------------------------------------------------------
(* Properties *)

\* C1: once fetch_comprehensive_market_data has returned, market_data holds
\* 'bitcoin', 'usd_inr' and 'ethereum', each the fetched value or, when the
\* request did not end with a valid body, its fallback constant.
C1_MarketDataFallback ==
    MarketDataReturned =>
        \A k \in RateKeys :
            /\ k \in DOMAIN market_data
            /\ outcome[k] # "valid" => market_data[k] = RateFallback[k]

\* C2: fetch_live_gold_prices always returns True; when neither page yields a
\* parsed price the prices are the hardcoded 126502 / 115960 with source
\* 'Current_Market_Verified_Oct14_2025' and all_sources = 1; and the hardcoded
\* source is selected in no other case.
C2_GoldPriceFallback ==
    PricesReturned =>
        LET neither == /\ outcome["page1"] # "parsed"
                       /\ outcome["page2"] # "parsed"
            hardcoded == "Current_Market_Verified_Oct14_2025"
        IN  /\ prices_ret = TRUE
            /\ neither =>
                   /\ current_prices.24k_per_10g = 126502
                   /\ current_prices.22k_per_10g = 115960
                   /\ current_prices.source = hardcoded
                   /\ current_prices.all_sources = 1
            /\ current_prices.source = hardcoded => neither

C2_Witness ==
    /\ pc = "bitcoin"
    /\ outcome["page1"] = "http_error"
    /\ outcome["page2"] = "no_match"
    /\ current_prices.source = "Current_Market_Verified_Oct14_2025"

\* C3: no step of run_complete_analysis aborts the run with an unhandled
\* error, whatever the requests, the credentials and the SMTP session do.
C3_RunToCompletion == pc # "crashed"

ExpectedSteps ==
    <<"fetch_live_gold_prices", "fetch_comprehensive_market_data",
      "generate_ai_prediction", "create_ultimate_report",
      "send_ultimate_analysis_email">>

\* C4: the steps begin in the fixed order prices, market data, prediction,
\* report, email; when the email step begins, current_prices, market_data and
\* forecast are populated, and the report (and the body of the message handed
\* to SMTP) is built from exactly those values.
C4_StepOrder ==
    /\ Len(steps) <= Len(ExpectedSteps)
    /\ \A i \in 1..Len(steps) : steps[i] = ExpectedSteps[i]
    /\ Has("send_ultimate_analysis_email") =>
           /\ "24k_per_10g" \in DOMAIN current_prices
           /\ ReportKeys \subseteq DOMAIN market_data
           /\ "predicted_24k" \in DOMAIN forecast
           /\ report.prices = current_prices
           /\ report.forecast = forecast
           /\ \A k \in ReportKeys : report.market[k] = market_data[k]
           /\ smtp_log # <<>> => message.body = report

C4_Witness == pc = "quit" /\ Len(steps) = 5 /\ Done(4, "sendmail")

\* C5: every endpoint is contacted at most once in an invocation, whatever
\* the outcome, and the second price page is requested whether or not the
\* first one failed.
C5_NoRetry ==
    /\ \A e \in Endpoints : calls[e] <= 1
    /\ PricesReturned => calls["page1"] = 1 /\ calls["page2"] = 1

C5_Witness ==
    /\ pc = "returned"
    /\ outcome["page1"] = "exception"
    /\ outcome["bitcoin"] = "exception"
    /\ calls["page2"] = 1
    /\ calls["bitcoin"] = 1
    /\ calls["smtp"] = 1
    /\ Failed(1)

\* C6: the change percentage of the forecast lies in [-2.5, 2.5], and in
\* [-2.0, 1.5] when the current 24K price is above 125000; predicted_24k is
\* the integer nearest to price * (1 + change/100) for that change.
C6_ClampedPrediction ==
    ForecastMade =>
        LET price  == current_prices.24k_per_10g
            change == forecast.total_change_pct
        IN  /\ -5000 <= change /\ change <= 5000
            /\ price > 125000 => -4000 <= change /\ change <= 3000
            /\ -250 <= forecast.change_pct /\ forecast.change_pct <= 250
            /\ 2 * Abs(200000 * (forecast.predicted_24k - price) - price * change)
                   <= 200000

C6_Witness ==
    /\ pc = "report"
    /\ current_prices.24k_per_10g > 125000
    /\ forecast.total_change_pct < 0
    /\ forecast.predicted_24k < current_prices.24k_per_10g

\* C7: two processes run on the same date with the same price and the same
\* API values produce the same seven synthetic indicators and the same
\* forecast.
C7_SameDateSameIndicators ==
    (twin.stage = "run" /\ \A i \in 1..2 : twin.proc[i].at = "done") =>
        /\ \A k \in IndicatorKeys :
               twin.proc[1].market_data[k] = twin.proc[2].market_data[k]
        /\ twin.proc[1].forecast = twin.proc[2].forecast

\* C8: send_ultimate_analysis_email returns False without any SMTP command
\* when a credential is unset or empty, returns False when a command of the
\* session raises, returns True only when sendmail completed; and the run
\* returns True in each of these cases.
C8_EmailFailureIsValue ==
    /\ EmailReturned =>
           /\ ~AllSet(creds) =>
                  email_sent = FALSE /\ smtp_log = <<>> /\ calls["smtp"] = 0
           /\ (\E i \in 1..Len(smtp_log) : Failed(i)) => email_sent = FALSE
           /\ email_sent = TRUE =>
                  \E i \in 1..Len(smtp_log) : Done(i, "sendmail")
    /\ pc = "returned" => result = TRUE

C8_Witness ==
    /\ pc = "returned"
    /\ creds.sender_password = ""
    /\ email_sent = FALSE
    /\ result = TRUE

\* C9: sendmail is issued only after connect, STARTTLS and login succeeded,
\* in that order; after a failed command no sendmail follows; and login (the
\* credentials) is never issued before STARTTLS succeeded.
C9_SmtpSessionOrder ==
    \A i \in 1..Len(smtp_log) :
        /\ smtp_log[i].cmd = "sendmail" =>
               /\ i = 4
               /\ Done(1, "connect")
               /\ Done(2, "starttls")
               /\ Done(3, "login")
        /\ smtp_log[i].cmd = "login" =>
               \E j \in 1..(i - 1) : Done(j, "starttls")
        /\ Failed(i) =>
               \A j \in (i + 1)..Len(smtp_log) : smtp_log[j].cmd = "quit"

C9_Witness ==
    /\ pc = "final"
    /\ Len(smtp_log) = 4
    /\ Done(2, "starttls")
    /\ smtp_log[3] = [cmd |-> "login", ok |-> FALSE]

\* C10: the selected source has the highest reliability rank among the
\* sources collected; GoldPriceIndia.com when it parsed, GoodReturns.in when
\* only it parsed; all_sources is the number collected: 2 when both parsed,
\* otherwise 1.
C10_BestSourceSelected ==
    PricesReturned =>
        LET first  == outcome["page1"] = "parsed"
            second == outcome["page2"] = "parsed"
        IN  /\ \E i \in 1..Len(sources_data) :
                   /\ sources_data[i].source = current_prices.source
                   /\ \A j \in 1..Len(sources_data) :
                          Reliability(sources_data[j])
                              <= Reliability(sources_data[i])
            /\ first => current_prices.source = "GoldPriceIndia.com"
            /\ (~first /\ second) => current_prices.source = "GoodReturns.in"
            /\ current_prices.all_sources = Len(sources_data)
            /\ current_prices.all_sources = IF first /\ second THEN 2 ELSE 1

C10_Witness ==
    /\ pc = "bitcoin"
    /\ outcome["page1"] = "parsed"
    /\ outcome["page2"] = "parsed"
    /\ current_prices.source = "GoldPriceIndia.com"
    /\ current_prices.all_sources = 2

ClaimedWeights == <<25, 20, 15, 12, 10, 8, 10>>

SentimentInRange(fc) ==
    /\ \A i \in 1..Len(FactorNames) :
           LET f == fc.factors[FactorNames[i]]
           IN  /\ f.weight = ClaimedWeights[i]
               /\ 0 <= f.bull
               /\ f.bull <= f.weight * 10
    /\ fc.total_weight = 100
    /\ fc.bullish_score = BullishScore(fc.factors)
    /\ fc.sentiment_score * fc.total_weight = fc.bullish_score * 100
    /\ 0 <= fc.sentiment_score
    /\ fc.sentiment_score <= 1000

\* C11: the seven factor weights are 25, 20, 15, 12, 10, 8, 10 and sum to
\* total_weight = 100; every factor adds between 0 and its own weight to
\* bullish_score; sentiment_score = bullish_score / total_weight * 100 lies
\* in [0, 100], for every indicator value and every date.
C11_SentimentScoreRange ==
    /\ ForecastMade => SentimentInRange(forecast)
    /\ Returned("generate_ai_prediction") => SentimentInRange(call.ret)

C11_Witness ==
    /\ Returned("generate_ai_prediction")
    /\ call.market_data \in MarketValues
    /\ call.ret.bullish_score = 960
    /\ call.ret.sentiment_score = 960

ConfidenceInBounds(price, fc) ==
    /\ 3000 <= fc.raw_confidence
    /\ fc.raw_confidence <= 3800
    /\ 750 <= fc.confidence
    /\ fc.confidence <= 950
    /\ price > 125000 => fc.raw_confidence <= 3520 /\ fc.confidence <= 880

\* C12: the confidence of the forecast lies in [75, 95] for every sentiment
\* score, and is at most 88 when the current 24K price is above 125000.
C12_ConfidenceBounds ==
    /\ ForecastMade => ConfidenceInBounds(current_prices.24k_per_10g, forecast)
    /\ Returned("generate_ai_prediction") =>
           ConfidenceInBounds(call.price, call.ret)
    /\ Returned("generate_ai_prediction from line 536") =>
           ConfidenceInBounds(call.price, call.ret)

C12_Witness ==
    /\ Returned("generate_ai_prediction")
    /\ call.price = 125001
    /\ call.ret.sentiment_score = 960
    /\ call.ret.confidence = 880

RangeBrackets(price, fc) ==
    price > 0 =>
        /\ fc.range_pct >= 12000
        /\ fc.range_24k.lower <= fc.predicted_24k
        /\ fc.predicted_24k <= fc.range_24k.upper

\* C13: for every positive current price and every clamped change, range_pct
\* is at least 0.6 and range_24k.lower <= predicted_24k <= range_24k.upper.
C13_RangeBracketsPrediction ==
    /\ ForecastMade => RangeBrackets(current_prices.24k_per_10g, forecast)
    /\ Returned("generate_ai_prediction") =>
           RangeBrackets(call.price, call.ret)
    /\ Returned("generate_ai_prediction from line 536") =>
           RangeBrackets(call.price, call.ret)

C13_Witness ==
    /\ Returned("generate_ai_prediction from line 536")
    /\ call.price = 124000
    /\ call.ret.total_change_pct = -5000
    /\ call.ret.range_pct = 27000
    /\ call.ret.range_24k.lower < call.ret.predicted_24k
    /\ call.ret.predicted_24k < call.ret.range_24k.upper

\* the pair for the sentiment score the function compares (the float)
ThresholdPair(sentiment_score, above) ==
    LET over(t) == Exceeds(sentiment_score, above, t)
    IN  IF over(750) THEN <<"STRONGLY BULLISH", "AGGRESSIVE BUY">>
        ELSE IF over(650) THEN <<"BULLISH", "BUY on dips">>
        ELSE IF over(550) THEN <<"MODERATELY BULLISH", "SELECTIVE buying">>
        ELSE IF over(450) THEN <<"NEUTRAL", "HOLD positions">>
        ELSE IF over(350) THEN <<"MODERATELY BEARISH", "REDUCE exposure">>
        ELSE <<"BEARISH", "AVOID new positions">>

AllTimeHighRule(price, fc) ==
    LET pair == ThresholdPair(fc.sentiment_score, fc.sentiment_above)
    IN  IF price > 125000 THEN
            /\ fc.action \notin {"AGGRESSIVE BUY", "BUY on dips"}
            /\ fc.action =
                   IF pair[2] \in {"AGGRESSIVE BUY", "BUY on dips"}
                   THEN "CAUTIOUS buying (all-time high risk)" ELSE pair[2]
            /\ fc.trend = <<pair[1], " (AT ALL-TIME HIGH)">>
        ELSE
            /\ fc.trend = <<pair[1]>>
            /\ fc.action = pair[2]

\* C14: above 125000 the action is never 'AGGRESSIVE BUY' or 'BUY on dips'
\* (both become 'CAUTIOUS buying (all-time high risk)') and the trend ends
\* with ' (AT ALL-TIME HIGH)'; at or below 125000 trend and action are the
\* pair the sentiment thresholds 75/65/55/45/35 choose.
C14_AllTimeHighOverride ==
    /\ ForecastMade => AllTimeHighRule(current_prices.24k_per_10g, forecast)
    /\ Returned("generate_ai_prediction") =>
           AllTimeHighRule(call.price, call.ret)
    /\ Returned("generate_ai_prediction from line 536") =>
           AllTimeHighRule(call.price, call.ret)

C14_Witness ==
    /\ Returned("generate_ai_prediction")
    /\ call.price = 125001
    /\ call.ret.sentiment_score > 650
    /\ call.ret.sentiment_score <= 750
    /\ call.ret.action = "CAUTIOUS buying (all-time high risk)"
    /\ call.ret.trend = <<"BULLISH", " (AT ALL-TIME HIGH)">>

ClaimedSeason(month, day) ==
    IF month = 10 /\ day <= 15 THEN <<"PRE_DIWALI_PEAK", 90>>
    ELSE IF month = 10 /\ 16 <= day /\ day <= 25 THEN <<"DHANTERAS_WEEK", 100>>
    ELSE IF month = 10 /\ day >= 26 THEN <<"DIWALI_WEEK", 95>>
    ELSE IF month = 11 /\ day <= 10 THEN <<"POST_DIWALI", 60>>
    ELSE IF month = 11 THEN <<"WINTER_WEDDING", 40>>
    ELSE IF month = 4 \/ month = 5 THEN <<"WEDDING_SEASON", 50>>
    ELSE <<"NORMAL", 0>>

SeasonAsClaimed(today, festival_data) ==
    /\ <<festival_data.season, festival_data.intensity>>
           = ClaimedSeason(MonthOf(today), DayOf(today))
    /\ 0 <= festival_data.intensity
    /\ festival_data.intensity <= 100

FestivalOnlyBullish(fc) ==
    /\ fc.factors.festival_season.bear = 0
    /\ fc.factors.festival_season.bull > 0
    /\ fc.bearish_score = BearishScore(fc.factors)
    /\ fc.bullish_score = BullishScore(fc.factors)

\* C15: the season and intensity are the ones the date's month and day
\* select (October <= 15, 16-25, >= 26; November <= 10, later; April and
\* May; any other date NORMAL); the intensity lies in [0, 1]; the festival
\* factor adds to bullish_score and never to bearish_score.
C15_FestivalClassification ==
    /\ ForecastMade =>
           /\ FestivalOnlyBullish(forecast)
           /\ 0 <= forecast.festival_data.intensity
           /\ forecast.festival_data.intensity <= 100
    /\ Returned("analyze_festival_season_impact") =>
           SeasonAsClaimed(call.today, call.ret)
    /\ Returned("generate_ai_prediction") =>
           /\ SeasonAsClaimed(call.today, call.ret.festival_data)
           /\ FestivalOnlyBullish(call.ret)

C15_Witness ==
    /\ Returned("analyze_festival_season_impact")
    /\ MonthOf(call.today) = 10
    /\ DayOf(call.today) = 15
    /\ call.ret.season = "PRE_DIWALI_PEAK"
    /\ call.ret.intensity = 90

ClaimedPrefix(price, change_pct) ==
    IF price > 125000 THEN "ALL-TIME HIGH"
    ELSE IF change_pct > 100 THEN "STRONG BUY"
    ELSE IF change_pct < -100 THEN "CAUTION"
    ELSE "ANALYSIS"

SubjectAndPriority(price, change_pct, msg) ==
    LET high == Abs(change_pct) > 150 \/ price > 125000
    IN  /\ msg.Subject[1] = ClaimedPrefix(price, change_pct)
        /\ "X_Priority" \in DOMAIN msg <=> high
        /\ "X_MSMail_Priority" \in DOMAIN msg <=> high
        /\ high => msg.X_Priority = "1" /\ msg.X_MSMail_Priority = "High"

\* C16: the subject prefix is 'ALL-TIME HIGH' when the price is above 125000
\* whatever the forecast, otherwise 'STRONG BUY' for change_pct > 1,
\* 'CAUTION' for change_pct < -1 and 'ANALYSIS' otherwise; X-Priority and
\* X-MSMail-Priority are set exactly when |change_pct| > 1.5 or the price is
\* above 125000.
C16_SubjectAndPriority ==
    /\ (Has("send_ultimate_analysis_email") /\ AllSet(creds)) =>
           SubjectAndPriority(current_prices.24k_per_10g, forecast.change_pct,
                              message)
    /\ (Returned("send_ultimate_analysis_email") /\ call.composed) =>
           SubjectAndPriority(call.price, call.change_pct, call.message)

C16_Witness ==
    /\ Returned("send_ultimate_analysis_email")
    /\ call.composed
    /\ call.price = 125000
    /\ call.change_pct = 151
    /\ call.message.Subject[1] = "STRONG BUY"
    /\ call.message.X_Priority = "1"
====
